---------------------------- MODULE Spec2Model ----------------------------
(***************************************************************************)
(* A model of nw/core/tohtml.py (class ToHtml): the conversion of a token  *)
(* list into HTML (doConvert), the accumulation of the results in          *)
(* fullHTML, the keyword formatter and the HTML entity substitution.       *)
(*                                                                         *)
(* A Python string is modelled as a sequence of one-character strings, so  *)
(* that slicing, joining, trimming and substitution are computed the way   *)
(* the code computes them.  None is modelled by the value None below.      *)
(***************************************************************************)
EXTENDS Integers, Sequences, FiniteSets, TLC

VARIABLES
    genMode,       \* self.genMode
    cssStyles,     \* self.cssStyles
    isNovel,       \* self.isNovel      (inherited from Tokenizer)
    linkHeaders,   \* self.linkHeaders  (inherited from Tokenizer)
    doKeywords,    \* self.doKeywords   (inherited from Tokenizer)
    doComments,    \* self.doComments   (inherited from Tokenizer)
    doSynopsis,    \* self.doSynopsis   (inherited from Tokenizer)
    keepMarkdown,  \* self.keepMarkdown (inherited from Tokenizer)
    theText,       \* self.theText
    theMarkdown,   \* self.theMarkdown, a list of strings
    theTokens,     \* self.theTokens
    theResult,     \* self.theResult
    fullHTML,      \* self.fullHTML
    pc,            \* where the instance is: "ready", "loop" (inside doConvert), "done"
    idx,           \* doConvert: index of the next token of the for loop
    thisPar,       \* doConvert local
    parStyle,      \* doConvert local
    tmpResult,     \* doConvert local
    hasHardBreak,  \* doConvert local
    scans,         \* log: what theIndex.scanThis returned, one entry per token of this call
    calls,         \* log: one record [mode, result] per completed doConvert call
    tabsReplaced,  \* log: replaceTabs has been called
    origText       \* log: theText before doAutoReplace

configVars == <<genMode, cssStyles, isNovel, linkHeaders, doKeywords, doComments, doSynopsis, keepMarkdown>>
textVars   == <<theText, theMarkdown, origText>>
loopVars   == <<idx, thisPar, parStyle, tmpResult, hasHardBreak, scans>>
vars == <<genMode, cssStyles, isNovel, linkHeaders, doKeywords, doComments, doSynopsis,
          keepMarkdown, theText, theMarkdown, theTokens, theResult, fullHTML, pc, idx,
          thisPar, parStyle, tmpResult, hasHardBreak, scans, calls, tabsReplaced, origText>>

-----------------------------------------------------------------------------
(* Bounds of the model *)

MaxTokens == 5
MaxHeadTokens == 1
MaxMixTokens == 3
MaxSpans == 2
MaxCalls == 3
MaxLen == 3
MaxValues == 2

-----------------------------------------------------------------------------
(* Constants of the class *)

M_PREVIEW == 0
M_EXPORT == 1
M_EBOOK == 2

None == <<"None">>

\* Token types, format kinds and style flags of Tokenizer, as tohtml.py names them.
T_EMPTY == "T_EMPTY"
T_TITLE == "T_TITLE"
T_HEAD1 == "T_HEAD1"
T_HEAD2 == "T_HEAD2"
T_HEAD3 == "T_HEAD3"
T_HEAD4 == "T_HEAD4"
T_SEP == "T_SEP"
T_SKIP == "T_SKIP"
T_TEXT == "T_TEXT"
T_SYNOPSIS == "T_SYNOPSIS"
T_COMMENT == "T_COMMENT"
T_KEYWORD == "T_KEYWORD"

FMT_B_B == "FMT_B_B"
FMT_B_E == "FMT_B_E"
FMT_I_B == "FMT_I_B"
FMT_I_E == "FMT_I_E"
FMT_D_B == "FMT_D_B"
FMT_D_E == "FMT_D_E"

\* tStyle is a bit set: it is modelled as the set of the flags that are set, and
\* tStyle & A_X as membership.  A tStyle of None is the set NoStyle.
A_LEFT == "A_LEFT"
A_RIGHT == "A_RIGHT"
A_CENTRE == "A_CENTRE"
A_JUSTIFY == "A_JUSTIFY"
A_PBB == "A_PBB"
A_PBB_AUT == "A_PBB_AUT"
A_PBA == "A_PBA"
A_PBA_AUT == "A_PBA_AUT"
A_Z_BTMMRG == "A_Z_BTMMRG"
A_Z_TOPMRG == "A_Z_TOPMRG"
NoStyle == {"None"}

-----------------------------------------------------------------------------
(* Python's string operations *)

Whitespace == {" ", "\t", "\n", "\r"}

\* str.rstrip()
RECURSIVE RStrip(_)
RStrip(s) ==
    IF s = <<>> THEN s
    ELSE IF s[Len(s)] \in Whitespace THEN RStrip(SubSeq(s, 1, Len(s) - 1))
    ELSE s

\* str.endswith(suf)
EndsWith(s, suf) ==
    /\ Len(s) >= Len(suf)
    /\ SubSeq(s, Len(s) - Len(suf) + 1, Len(s)) = suf

\* s[i:].startswith(pat), i counted from 1
StartsWithAt(s, i, pat) ==
    /\ i + Len(pat) - 1 <= Len(s)
    /\ SubSeq(s, i, i + Len(pat) - 1) = pat

\* s[:n] and s[n:] for n >= 0
SliceTo(s, n) == SubSeq(s, 1, IF n < Len(s) THEN n ELSE Len(s))
SliceFrom(s, n) == SubSeq(s, n + 1, Len(s))

\* "".join(parts)
RECURSIVE Flatten(_)
Flatten(parts) ==
    IF parts = <<>> THEN <<>> ELSE Head(parts) \o Flatten(Tail(parts))

\* sep.join(parts)
RECURSIVE JoinWith(_, _)
JoinWith(sep, parts) ==
    IF parts = <<>> THEN <<>>
    ELSE IF Len(parts) = 1 THEN parts[1]
    ELSE parts[1] \o sep \o JoinWith(sep, Tail(parts))

\* s.find(pat) + 1: the first position at which pat occurs in s, 0 when it does not
IndexOf(s, pat) ==
    IF \E i \in 1..Len(s) : StartsWithAt(s, i, pat)
    THEN CHOOSE i \in 1..Len(s) :
            /\ StartsWithAt(s, i, pat)
            /\ \A j \in 1..(i - 1) : ~StartsWithAt(s, j, pat)
    ELSE 0

\* s.replace(pat, rep), pat not empty: the occurrences from left to right,
\* the search going on after each one
RECURSIVE Replace(_, _, _)
Replace(s, pat, rep) ==
    LET i == IndexOf(s, pat)
    IN  IF i = 0 THEN s
        ELSE SubSeq(s, 1, i - 1) \o rep \o Replace(SliceFrom(s, i + Len(pat) - 1), pat, rep)

\* the decimal digits of n >= 0
RECURSIVE Digits(_)
Digits(n) ==
    LET d == <<"0", "1", "2", "3", "4", "5", "6", "7", "8", "9">>
    IN  IF n < 10 THEN <<d[n + 1]>> ELSE Digits(n \div 10) \o <<d[(n % 10) + 1]>>

\* "%06d" % n
RECURSIVE ZeroPad(_, _)
ZeroPad(s, width) == IF Len(s) >= width THEN s ELSE ZeroPad(<<"0">> \o s, width)
Fmt06d(n) == ZeroPad(Digits(n), 6)

-----------------------------------------------------------------------------
(* The entity tables: __init__ and _buildRegEx *)

\* nwUnicode (nw/constants.py): one character each, and its HTML entity
U_ENDASH == <<"U+2013">>
U_EMDASH == <<"U+2014">>
U_HELLIP == <<"U+2026">>
U_NBSP == <<"U+00A0">>
U_THSP == <<"U+2009">>
U_THNBSP == <<"U+202F">>
U_MAPOSS == <<"U+02BC">>
H_ENDASH == <<"&", "n", "d", "a", "s", "h", ";">> (* "&ndash;" *)
H_EMDASH == <<"&", "m", "d", "a", "s", "h", ";">> (* "&mdash;" *)
H_HELLIP == <<"&", "h", "e", "l", "l", "i", "p", ";">> (* "&hellip;" *)
H_NBSP == <<"&", "n", "b", "s", "p", ";">> (* "&nbsp;" *)
H_THSP == <<"&", "t", "h", "i", "n", "s", "p", ";">> (* "&thinsp;" *)
H_THNBSP == <<"&", "#", "8", "2", "3", "9", ";">> (* "&#8239;" *)
H_RSQUO == <<"&", "r", "s", "q", "u", "o", ";">> (* "&rsquo;" *)

\* self.repDict, in insertion order: <<key, value>>
repDict ==
    << <<<<"<">>, <<"&", "l", "t", ";">> (* "&lt;" *)>>,
       <<<<">">>, <<"&", "g", "t", ";">> (* "&gt;" *)>>,
       <<<<"&">>, <<"&", "a", "m", "p", ";">> (* "&amp;" *)>>,
       <<U_ENDASH, H_ENDASH>>,
       <<U_EMDASH, H_EMDASH>>,
       <<U_HELLIP, H_HELLIP>>,
       <<U_NBSP, H_NBSP>>,
       <<U_THSP, H_THSP>>,
       <<U_THNBSP, H_THNBSP>>,
       <<U_MAPOSS, H_RSQUO>> >>

\* d[k] = v on a dict kept as a sequence of <<key, value>> in insertion order
DictSet(d, k, v) ==
    IF \E i \in 1..Len(d) : d[i][1] = k
    THEN [i \in 1..Len(d) |-> IF d[i][1] = k THEN <<k, v>> ELSE d[i]]
    ELSE Append(d, <<k, v>>)

\* dict(map(reversed, d.items()))
RECURSIVE Reversed(_, _)
Reversed(d, acc) ==
    IF d = <<>> THEN acc
    ELSE Reversed(Tail(d), DictSet(acc, Head(d)[2], Head(d)[1]))

revDict == Reversed(repDict, <<>>)

\* The alternative of re.compile("|".join(keys)) that matches at the head of s:
\* the first key, in order, that s starts with; 0 when none does.
RECURSIVE FirstMatch(_, _, _)
FirstMatch(d, s, k) ==
    IF k > Len(d) THEN 0
    ELSE IF StartsWithAt(s, 1, d[k][1]) THEN k
    ELSE FirstMatch(d, s, k + 1)

\* regex.sub(lambda x: d[x.group(0)], s): one pass from left to right, the
\* replacement text is not scanned again
RECURSIVE ReSub_TwoPass(_, _)
ReSub_TwoPass(d, s) ==
    IF d = <<>> THEN s
    ELSE ReSub_TwoPass(Tail(d), Replace(s, Head(d)[1], Head(d)[2]))

\* the first position of s at which a key of d matches, 0 when none does
FirstHit(d, s) ==
    IF \E i \in 1..Len(s) : FirstMatch(d, SliceFrom(s, i - 1), 1) > 0
    THEN CHOOSE i \in 1..Len(s) :
            /\ FirstMatch(d, SliceFrom(s, i - 1), 1) > 0
            /\ \A j \in 1..(i - 1) : FirstMatch(d, SliceFrom(s, j - 1), 1) = 0
    ELSE 0

RECURSIVE ReSubOnePass(_, _)
ReSubOnePass(d, s) ==
    LET i == FirstHit(d, s)
    IN  IF i = 0 THEN s
        ELSE LET k == FirstMatch(d, SliceFrom(s, i - 1), 1)
             IN  SubSeq(s, 1, i - 1) \o d[k][2]
                     \o ReSubOnePass(d, SliceFrom(s, i - 1 + Len(d[k][1])))

ReSub(d, s) == ReSubOnePass(d, s)

\* doAutoReplace: self.reReplace.sub(...)
Encode(s) == ReSub(repDict, s)

\* doPostProcessing: self.reReverse.sub(...)
Decode(s) == ReSub(revDict, s)

-----------------------------------------------------------------------------
(* doConvert: the tables chosen before the loop *)

htmlTags(xFmt) ==
    IF genMode = M_PREVIEW
    THEN CASE xFmt = FMT_B_B -> <<"<", "b", ">">>
           [] xFmt = FMT_B_E -> <<"<", "/", "b", ">">> (* "</b>" *)
           [] xFmt = FMT_I_B -> <<"<", "i", ">">>
           [] xFmt = FMT_I_E -> <<"<", "/", "i", ">">> (* "</i>" *)
           [] xFmt = FMT_D_B -> <<"<", "s", "p", "a", "n", " ", "s", "t", "y", "l", "e", "=", "'", "t", "e", "x", "t", "-", "d", "e", "c", "o", "r", "a", "t", "i", "o", "n", ":", " ", "l", "i", "n", "e", "-", "t", "h", "r", "o", "u", "g", "h", ";", "'", ">">> (* "<span style='text-decoration: line-through;'>" *)
           [] xFmt = FMT_D_E -> <<"<", "/", "s", "p", "a", "n", ">">> (* "</span>" *)
    ELSE CASE xFmt = FMT_B_B -> <<"<", "s", "t", "r", "o", "n", "g", ">">> (* "<strong>" *)
           [] xFmt = FMT_B_E -> <<"<", "/", "s", "t", "r", "o", "n", "g", ">">> (* "</strong>" *)
           [] xFmt = FMT_I_B -> <<"<", "e", "m", ">">> (* "<em>" *)
           [] xFmt = FMT_I_E -> <<"<", "/", "e", "m", ">">> (* "</em>" *)
           [] xFmt = FMT_D_B -> <<"<", "d", "e", "l", ">">> (* "<del>" *)
           [] xFmt = FMT_D_E -> <<"<", "/", "d", "e", "l", ">">> (* "</del>" *)

BumpTitles == isNovel /\ genMode # M_PREVIEW

h1Cl == IF BumpTitles THEN <<" ", "c", "l", "a", "s", "s", "=", "'", "t", "i", "t", "l", "e", "'">> (* " class='title'" *) ELSE <<>>

hTag_NoBump(tType) ==
    CASE tType = T_HEAD1 -> <<"h", "1">>
      [] tType = T_HEAD2 -> <<"h", "2">>
      [] tType = T_HEAD3 -> <<"h", "3">>
      [] tType = T_HEAD4 -> <<"h", "4">>

\* h1, h2, h3, h4
hTag(tType) ==
    IF BumpTitles
    THEN CASE tType = T_HEAD1 -> <<"h", "1">>
           [] tType = T_HEAD2 -> <<"h", "1">>
           [] tType = T_HEAD3 -> <<"h", "2">>
           [] tType = T_HEAD4 -> <<"h", "3">>
    ELSE CASE tType = T_HEAD1 -> <<"h", "1">>
           [] tType = T_HEAD2 -> <<"h", "2">>
           [] tType = T_HEAD3 -> <<"h", "3">>
           [] tType = T_HEAD4 -> <<"h", "4">>

(* doConvert: the per-token style and anchor *)

aStyle(tStyle) ==
    IF tStyle # NoStyle /\ cssStyles
    THEN (IF A_LEFT \in tStyle THEN <<<<"t", "e", "x", "t", "-", "a", "l", "i", "g", "n", ":", " ", "l", "e", "f", "t", ";">> (* "text-align: left;" *)>>
          ELSE IF A_RIGHT \in tStyle THEN <<<<"t", "e", "x", "t", "-", "a", "l", "i", "g", "n", ":", " ", "r", "i", "g", "h", "t", ";">> (* "text-align: right;" *)>>
          ELSE IF A_CENTRE \in tStyle THEN <<<<"t", "e", "x", "t", "-", "a", "l", "i", "g", "n", ":", " ", "c", "e", "n", "t", "e", "r", ";">> (* "text-align: center;" *)>>
          ELSE IF A_JUSTIFY \in tStyle THEN <<<<"t", "e", "x", "t", "-", "a", "l", "i", "g", "n", ":", " ", "j", "u", "s", "t", "i", "f", "y", ";">> (* "text-align: justify;" *)>>
          ELSE <<>>)
         \o
         (IF A_PBB \in tStyle THEN <<<<"p", "a", "g", "e", "-", "b", "r", "e", "a", "k", "-", "b", "e", "f", "o", "r", "e", ":", " ", "a", "l", "w", "a", "y", "s", ";">> (* "page-break-before: always;" *)>>
          ELSE IF A_PBB_AUT \in tStyle THEN <<<<"p", "a", "g", "e", "-", "b", "r", "e", "a", "k", "-", "b", "e", "f", "o", "r", "e", ":", " ", "a", "u", "t", "o", ";">> (* "page-break-before: auto;" *)>>
          ELSE <<>>)
         \o
         (IF A_PBA \in tStyle THEN <<<<"p", "a", "g", "e", "-", "b", "r", "e", "a", "k", "-", "a", "f", "t", "e", "r", ":", " ", "a", "l", "w", "a", "y", "s", ";">> (* "page-break-after: always;" *)>>
          ELSE IF A_PBA_AUT \in tStyle THEN <<<<"p", "a", "g", "e", "-", "b", "r", "e", "a", "k", "-", "a", "f", "t", "e", "r", ":", " ", "a", "u", "t", "o", ";">> (* "page-break-after: auto;" *)>>
          ELSE <<>>)
         \o
         (IF A_Z_BTMMRG \in tStyle THEN <<<<"m", "a", "r", "g", "i", "n", "-", "b", "o", "t", "t", "o", "m", ":", " ", "0", ";">> (* "margin-bottom: 0;" *)>> ELSE <<>>)
         \o
         (IF A_Z_TOPMRG \in tStyle THEN <<<<"m", "a", "r", "g", "i", "n", "-", "t", "o", "p", ":", " ", "0", ";">> (* "margin-top: 0;" *)>> ELSE <<>>)
    ELSE <<>>

hStyle(tStyle) ==
    IF Len(aStyle(tStyle)) > 0
    THEN <<" ", "s", "t", "y", "l", "e", "=", "'">> (* " style='" *) \o JoinWith(<<" ">>, aStyle(tStyle)) \o <<"'">>
    ELSE <<>>

aNm(tLine) ==
    IF linkHeaders
    THEN <<"<", "a", " ", "n", "a", "m", "e", "=", "'", "T">> (* "<a name='T" *) \o Fmt06d(tLine) \o <<"'", ">", "<", "/", "a", ">">> (* "'></a>" *)
    ELSE <<>>

-----------------------------------------------------------------------------
(* _formatSynopsis, _formatComments, _formatKeywords *)

formatSynopsis(tText) ==
    IF genMode = M_PREVIEW
    THEN <<"<", "p", " ", "c", "l", "a", "s", "s", "=", "'", "c", "o", "m", "m", "e", "n", "t", "'", ">", "<", "s", "p", "a", "n", " ", "c", "l", "a", "s", "s", "=", "'", "s", "y", "n", "o", "p", "s", "i", "s", "'", ">", "S", "y", "n", "o", "p", "s", "i", "s", ":", "<", "/", "s", "p", "a", "n", ">", " ">> (* "<p class='comment'><span class='synopsis'>Synopsis:</span> " *) \o tText \o <<"<", "/", "p", ">", "\n">> (* "</p>\n" *)
    ELSE <<"<", "p", " ", "c", "l", "a", "s", "s", "=", "'", "s", "y", "n", "o", "p", "s", "i", "s", "'", ">", "<", "s", "t", "r", "o", "n", "g", ">", "S", "y", "n", "o", "p", "s", "i", "s", ":", "<", "/", "s", "t", "r", "o", "n", "g", ">", " ">> (* "<p class='synopsis'><strong>Synopsis:</strong> " *) \o tText \o <<"<", "/", "p", ">", "\n">> (* "</p>\n" *)

formatComments(tText) ==
    IF genMode = M_PREVIEW
    THEN <<"<", "p", " ", "c", "l", "a", "s", "s", "=", "'", "c", "o", "m", "m", "e", "n", "t", "'", ">">> (* "<p class='comment'>" *) \o tText \o <<"<", "/", "p", ">", "\n">> (* "</p>\n" *)
    ELSE <<"<", "p", " ", "c", "l", "a", "s", "s", "=", "'", "c", "o", "m", "m", "e", "n", "t", "'", ">", "<", "s", "t", "r", "o", "n", "g", ">", "C", "o", "m", "m", "e", "n", "t", ":", "<", "/", "s", "t", "r", "o", "n", "g", ">", " ">> (* "<p class='comment'><strong>Comment:</strong> " *) \o tText \o <<"<", "/", "p", ">", "\n">> (* "</p>\n" *)

\* nwKeyWords and nwLabels.KEY_NAME (nw/constants.py)
TAG_KEY == <<"@", "t", "a", "g">> (* "@tag" *)
POV_KEY == <<"@", "p", "o", "v">> (* "@pov" *)
CHAR_KEY == <<"@", "c", "h", "a", "r">> (* "@char" *)
KEY_NAME ==
    (TAG_KEY :> <<"T", "a", "g">>) @@ (POV_KEY :> <<"P", "o", "i", "n", "t", " ", "o", "f", " ", "V", "i", "e", "w">> (* "Point of View" *)) @@ (CHAR_KEY :> <<"C", "h", "a", "r", "a", "c", "t", "e", "r", "s">> (* "Characters" *))

\* the <a name=...> of a tag definition
tagAnchor(tTag) ==
    <<"<", "a", " ", "n", "a", "m", "e", "=", "'", "t", "a", "g", "_">> (* "<a name='tag_" *) \o tTag \o <<"'", ">">> \o tTag \o <<"<", "/", "a", ">">> (* "</a>" *)

refLink_PreviewForm(keyword, tTag) ==
    <<"<", "a", " ", "h", "r", "e", "f", "=", "'", "#">> (* "<a href='#" *) \o SliceFrom(keyword, 1) \o <<"=">> \o tTag \o <<"'", ">">> \o tTag \o <<"<", "/", "a", ">">> (* "</a>" *)

\* the <a href=...> of one referenced tag
refLink(keyword, tTag) ==
    IF genMode = M_PREVIEW
    THEN <<"<", "a", " ", "h", "r", "e", "f", "=", "'", "#">> (* "<a href='#" *) \o SliceFrom(keyword, 1) \o <<"=">> \o tTag \o <<"'", ">">> \o tTag \o <<"<", "/", "a", ">">> (* "</a>" *)
    ELSE <<"<", "a", " ", "h", "r", "e", "f", "=", "'", "#", "t", "a", "g", "_">> (* "<a href='#tag_" *) \o tTag \o <<"'", ">">> \o tTag \o <<"<", "/", "a", ">">> (* "</a>" *)

\* _formatKeywords, given what theIndex.scanThis("@" + tText) returned
formatKeywords(scan) ==
    LET theBits == scan.theBits
    IN  IF ~scan.isValid \/ theBits = <<>> THEN <<>>
        ELSE IF theBits[1] \in DOMAIN KEY_NAME
        THEN <<"<", "s", "p", "a", "n", " ", "c", "l", "a", "s", "s", "=", "'", "t", "a", "g", "s", "'", ">">> (* "<span class='tags'>" *) \o KEY_NAME[theBits[1]] \o <<":", "<", "/", "s", "p", "a", "n", ">", " ">> (* ":</span> " *)
             \o (IF Len(theBits) > 1
                 THEN IF theBits[1] = TAG_KEY
                      THEN tagAnchor(theBits[2])
                      ELSE JoinWith(<<",", " ">>, [i \in 1..(Len(theBits) - 1) |->
                                                refLink(theBits[1], theBits[i + 1])])
                 ELSE <<>>)
        ELSE <<>>

-----------------------------------------------------------------------------
(* doConvert: the branches of the loop body.  st is the record of the locals  *)
(* [thisPar, parStyle, tmpResult, hasHardBreak]; each branch gives the locals *)
(* after the token.                                                           *)

Locals == [thisPar |-> thisPar, parStyle |-> parStyle,
           tmpResult |-> tmpResult, hasHardBreak |-> hasHardBreak]

Emit(st, fragment) == [st EXCEPT !.tmpResult = Append(st.tmpResult, fragment)]

parClass(hardBreak) ==
    IF hardBreak /\ cssStyles THEN <<" ", "c", "l", "a", "s", "s", "=", "'", "b", "r", "e", "a", "k", "'">> (* " class='break'" *) ELSE <<>>

parContent_NoStrip(par) == Flatten(par)

\* "".join(thisPar), then tTemp.rstrip()
parContent(par) == RStrip(Flatten(par))

parFragment(st) ==
    <<"<", "p">> \o (IF st.parStyle = None THEN <<>> ELSE st.parStyle)
          \o parClass(st.hasHardBreak) \o <<">">> \o parContent(st.thisPar) \o <<"<", "/", "p", ">", "\n">> (* "</p>\n" *)

emptyReset_KeepBreak(st) ==
    [st EXCEPT !.thisPar = <<>>, !.parStyle = None]

\* the three assignments that end the T_EMPTY branch
emptyReset(st) ==
    [st EXCEPT !.thisPar = <<>>, !.parStyle = None, !.hasHardBreak = FALSE]

branchEmpty(st) ==
    emptyReset(IF Len(st.thisPar) > 0 THEN Emit(st, parFragment(st)) ELSE st)

tHead(tText) == Replace(tText, <<"\\", "\\">>, <<"<", "b", "r", "/", ">">> (* "<br/>" *))

headFragment(tok) ==
    CASE tok.tType = T_TITLE ->
            <<"<", "h", "1", " ", "c", "l", "a", "s", "s", "=", "'", "t", "i", "t", "l", "e", "'">> (* "<h1 class='title'" *) \o hStyle(tok.tStyle) \o <<">">> \o aNm(tok.tLine)
                \o tHead(tok.tText) \o <<"<", "/", "h", "1", ">", "\n">> (* "</h1>\n" *)
      [] tok.tType = T_HEAD1 ->
            <<"<">> \o hTag(T_HEAD1) \o h1Cl \o hStyle(tok.tStyle) \o <<">">> \o aNm(tok.tLine)
                \o tHead(tok.tText) \o <<"<", "/">> \o hTag(T_HEAD1) \o <<">", "\n">>
      [] tok.tType \in {T_HEAD2, T_HEAD3, T_HEAD4} ->
            <<"<">> \o hTag(tok.tType) \o hStyle(tok.tStyle) \o <<">">> \o aNm(tok.tLine)
                \o tHead(tok.tText) \o <<"<", "/">> \o hTag(tok.tType) \o <<">", "\n">>

branchHead_Flush(st, tok) ==
    Emit(branchEmpty(st), headFragment(tok))

\* T_TITLE, T_HEAD1, T_HEAD2, T_HEAD3, T_HEAD4
branchHead(st, tok) == Emit(st, headFragment(tok))

branchSep(st, tok) == Emit(st, <<"<", "p", " ", "c", "l", "a", "s", "s", "=", "'", "s", "e", "p", "'", ">">> (* "<p class='sep'>" *) \o tok.tText \o <<"<", "/", "p", ">", "\n">> (* "</p>\n" *))

branchSkip(st) == Emit(st, <<"<", "p", " ", "c", "l", "a", "s", "s", "=", "'", "s", "k", "i", "p", "'", ">", "&", "n", "b", "s", "p", ";", "<", "/", "p", ">", "\n">> (* "<p class='skip'>&nbsp;</p>\n" *))

\* tTemp[:xPos] + htmlTags[xFmt] + tTemp[xPos+xLen:]
spliceTag(tTemp, fmt) ==
    SliceTo(tTemp, fmt[1]) \o htmlTags(fmt[3]) \o SliceFrom(tTemp, fmt[1] + fmt[2])

RECURSIVE applyFormat_Forward(_, _)
applyFormat_Forward(tTemp, tFormat) ==
    IF tFormat = <<>> THEN tTemp
    ELSE applyFormat_Forward(spliceTag(tTemp, Head(tFormat)), Tail(tFormat))

\* for xPos, xLen, xFmt in reversed(tFormat): ...
RECURSIVE applyReversed(_, _)
applyReversed(tTemp, tFormat) ==
    IF tFormat = <<>> THEN tTemp
    ELSE applyReversed(spliceTag(tTemp, tFormat[Len(tFormat)]),
                       SubSeq(tFormat, 1, Len(tFormat) - 1))

applyFormat(tTemp, tFormat) == applyReversed(tTemp, tFormat)

textParStyle_Override(oldStyle, newStyle) == newStyle

\* if parStyle is None: parStyle = hStyle
textParStyle(oldStyle, newStyle) ==
    IF oldStyle = None THEN newStyle ELSE oldStyle

branchText(st, tok) ==
    LET tTemp == applyFormat(tok.tText, tok.tFormat)
        style == textParStyle(st.parStyle, hStyle(tok.tStyle))
    IN  IF EndsWith(tok.tText, <<" ", " ">>)
        THEN [st EXCEPT !.parStyle = style,
                        !.thisPar = Append(st.thisPar, RStrip(tTemp) \o <<"<", "b", "r", "/", ">">> (* "<br/>" *)),
                        !.hasHardBreak = TRUE]
        ELSE [st EXCEPT !.parStyle = style,
                        !.thisPar = Append(st.thisPar, RStrip(tTemp) \o <<" ">>)]

branchKeyword(st, tok, scan) ==
    Emit(st, <<"<", "p">> \o hStyle(tok.tStyle) \o <<">">> \o formatKeywords(scan) \o <<"<", "/", "p", ">", "\n">> (* "</p>\n" *))

\* the if/elif chain of the loop body
loopBody(st, tok, scan) ==
    IF tok.tType = T_EMPTY THEN branchEmpty(st)
    ELSE IF tok.tType \in {T_TITLE, T_HEAD1, T_HEAD2, T_HEAD3, T_HEAD4} THEN branchHead(st, tok)
    ELSE IF tok.tType = T_SEP THEN branchSep(st, tok)
    ELSE IF tok.tType = T_SKIP THEN branchSkip(st)
    ELSE IF tok.tType = T_TEXT THEN branchText(st, tok)
    ELSE IF tok.tType = T_SYNOPSIS /\ doSynopsis THEN Emit(st, formatSynopsis(tok.tText))
    ELSE IF tok.tType = T_COMMENT /\ doComments THEN Emit(st, formatComments(tok.tText))
    ELSE IF tok.tType = T_KEYWORD /\ doKeywords THEN branchKeyword(st, tok, scan)
    ELSE st

appendFull_Always(full, result) == Append(full, result)

\* if self.genMode != self.M_PREVIEW: self.fullHTML.append(self.theResult)
appendFull(full, result) ==
    IF genMode # M_PREVIEW THEN Append(full, result) ELSE full

\* replaceTabs
replaceTabs(full, nSpaces, spaceChar) ==
    [i \in 1..Len(full) |->
        Replace(full[i], <<"\t">>, Flatten([k \in 1..nSpaces |-> spaceChar]))]

-----------------------------------------------------------------------------
(* The inputs *)

Tok(tType, tLine, tText, tFormat, tStyle) ==
    [tType |-> tType, tLine |-> tLine, tText |-> tText, tFormat |-> tFormat, tStyle |-> tStyle]

\* every token list of at most n tokens of pool
Docs(pool, n) == UNION {[1..k -> pool] : k \in 0..n}

HelloTok == Tok(T_TEXT, 1, <<"H", "e", "l", "l", "o", " ">> (* "Hello " *), <<>>, NoStyle)
WorldTok == Tok(T_TEXT, 2, <<"w", "o", "r", "l", "d", ".">> (* "world." *), <<>>, NoStyle)
BreakTok == Tok(T_TEXT, 3, <<"a", " ", " ">>, <<>>, NoStyle)
RightTok == Tok(T_TEXT, 4, <<"b">>, <<>>, {A_RIGHT})
EmptyTok == Tok(T_EMPTY, 5, <<>>, <<>>, NoStyle)
HeadTok  == Tok(T_HEAD2, 6, <<"H">>, <<>>, NoStyle)
ParPool  == {HelloTok, WorldTok, BreakTok, RightTok, EmptyTok, HeadTok}

HeadKinds == {T_TITLE, T_HEAD1, T_HEAD2, T_HEAD3, T_HEAD4}
HeadPool ==
    {Tok(k, 7, <<"H">>, <<>>, NoStyle) : k \in HeadKinds}
    \cup {Tok(k, 123, <<"A", "\\", "\\", "B">> (* "A\\\\B" *), <<>>, {A_CENTRE, A_JUSTIFY, A_PBB_AUT, A_Z_TOPMRG}) : k \in HeadKinds}

MixPool == {HelloTok, WorldTok, EmptyTok} \cup {Tok(k, 6, <<"H">>, <<>>, NoStyle) : k \in HeadKinds}

KeyPool == {Tok(T_KEYWORD, 8, <<"k">>, <<>>, NoStyle), Tok(T_KEYWORD, 9, <<"k">>, <<>>, {A_Z_BTMMRG})}

\* what theIndex.scanThis can return: (isValid, theBits); thePos is not used
BAD_KEY == <<"@", "b", "a", "d">> (* "@bad" *)
TagValues == {<<"a", "l", "p", "h", "a">> (* "alpha" *), <<"b">>}
ScanBits ==
    {<<>>} \cup
    UNION {{<<k>> \o v : v \in [1..n -> TagValues]} : <<k, n>> \in {TAG_KEY, POV_KEY, CHAR_KEY, BAD_KEY} \X (0..MaxValues)}
ScanResults == [isValid : BOOLEAN, theBits : ScanBits]
NoScan == [isValid |-> FALSE, theBits |-> <<>>]

FmtKinds == {FMT_B_B, FMT_B_E, FMT_I_B, FMT_I_E, FMT_D_B, FMT_D_E}
SpanTexts == {<<"a", "b", "c", "d", "e">> (* "abcde" *), <<"a", "b", "c", " ", " ">> (* "abc  " *), <<"a", "b", " ", "\t">> (* "ab \t" *)}
\* the span lists a tokenizer produces: in range, ascending, not overlapping
InRange(text, f) == \A i \in 1..Len(f) : f[i][1] + f[i][2] <= Len(text)
NonOverlapping(f) == \A i \in 1..(Len(f) - 1) : f[i][1] + f[i][2] <= f[i + 1][1]
\* the lists of at most n such spans of text that start at position from or later
RECURSIVE FormatsFrom(_, _, _)
FormatsFrom(text, from, n) ==
    {<<>>} \cup
    (IF n = 0 THEN {}
     ELSE UNION {{<<<<p, l, x>>>> \o rest : rest \in FormatsFrom(text, p + l, n - 1)} :
                    <<p, l, x>> \in {s \in (from..(Len(text) - 1)) \X (1..2) \X FmtKinds :
                                        s[1] + s[2] <= Len(text)}})
ValidFormats(text) == FormatsFrom(text, 0, MaxSpans)
SpanDocs == UNION {{<<Tok(T_TEXT, 1, t, f, NoStyle)>> : f \in ValidFormats(t)} : t \in SpanTexts}

\* the documents converted one after the other: none or one token each
CallPool ==
    {Tok(T_SEP, 1, <<"\t">>, <<>>, NoStyle),
     Tok(T_HEAD1, 2, <<"H">>, <<>>, {A_LEFT}),
     Tok(T_COMMENT, 3, <<"c">>, <<>>, NoStyle)}
CallDocs == {<<>>} \cup {<<t>> : t \in CallPool}
TabWidths == {1, 8}

MappedChars == {repDict[i][1] : i \in 1..Len(repDict)}
EscapeExample == <<"<", "a", " ", "&", " ", "b", ">">> (* "<a & b>" *)
CodecInputs ==
    {EscapeExample} \cup {Flatten(w) : w \in UNION {[1..k -> MappedChars] : k \in 0..MaxLen}}

-----------------------------------------------------------------------------
(* The states after construction and tokenization *)

\* __init__, with the given token list and settings
Constructed(tokens) ==
    /\ theTokens = tokens
    /\ theText = <<>>
    /\ origText = <<>>
    /\ theMarkdown = <<>>
    /\ theResult = <<>>
    /\ fullHTML = <<>>
    /\ pc = "ready"
    /\ idx = 1
    /\ thisPar = <<>>
    /\ parStyle = None
    /\ tmpResult = <<>>
    /\ hasHardBreak = FALSE
    /\ scans = <<>>
    /\ calls = <<>>
    /\ tabsReplaced = FALSE

\* paragraphs: text, empty and heading tokens, CSS on or off
Init ==
    /\ genMode = M_EXPORT
    /\ cssStyles \in BOOLEAN
    /\ isNovel = FALSE
    /\ linkHeaders = FALSE
    /\ doKeywords = FALSE
    /\ doComments = FALSE
    /\ doSynopsis = FALSE
    /\ keepMarkdown = FALSE
    /\ \E d \in Docs(ParPool, MaxTokens) : Constructed(d)

\* headings, in every mode and for novel and other documents
InitHead ==
    /\ genMode \in {M_PREVIEW, M_EXPORT, M_EBOOK}
    /\ cssStyles \in BOOLEAN
    /\ isNovel \in BOOLEAN
    /\ linkHeaders \in BOOLEAN
    /\ doKeywords = FALSE
    /\ doComments = FALSE
    /\ doSynopsis = FALSE
    /\ keepMarkdown = FALSE
    /\ \E d \in Docs(HeadPool, MaxHeadTokens) : Constructed(d)

\* text, empty, title and heading tokens mixed
InitMix ==
    /\ genMode = M_EXPORT
    /\ cssStyles = TRUE
    /\ isNovel = FALSE
    /\ linkHeaders \in BOOLEAN
    /\ doKeywords = FALSE
    /\ doComments = FALSE
    /\ doSynopsis = FALSE
    /\ keepMarkdown = FALSE
    /\ \E d \in Docs(MixPool, MaxMixTokens) : Constructed(d)

\* one keyword token, in every mode
InitKey ==
    /\ genMode \in {M_PREVIEW, M_EXPORT, M_EBOOK}
    /\ cssStyles \in BOOLEAN
    /\ isNovel = FALSE
    /\ linkHeaders = FALSE
    /\ doKeywords \in BOOLEAN
    /\ doComments = FALSE
    /\ doSynopsis = FALSE
    /\ keepMarkdown = FALSE
    /\ \E t \in KeyPool : Constructed(<<t>>)

\* one text token with format spans
InitSpan ==
    /\ genMode \in {M_PREVIEW, M_EXPORT}
    /\ cssStyles = TRUE
    /\ isNovel = FALSE
    /\ linkHeaders = FALSE
    /\ doKeywords = FALSE
    /\ doComments = FALSE
    /\ doSynopsis = FALSE
    /\ keepMarkdown = FALSE
    /\ \E d \in SpanDocs : Constructed(d)

\* a new instance, before any text is tokenized; genMode is M_EXPORT unless the
\* caller has assigned M_EBOOK
InitCalls ==
    /\ genMode \in {M_EXPORT, M_EBOOK}
    /\ cssStyles = TRUE
    /\ isNovel = FALSE
    /\ linkHeaders = FALSE
    /\ doKeywords = FALSE
    /\ doComments = FALSE
    /\ doSynopsis = FALSE
    /\ keepMarkdown = FALSE
    /\ Constructed(<<>>)

\* a text set, before doAutoReplace
InitCodec ==
    /\ genMode \in {M_PREVIEW, M_EXPORT}
    /\ cssStyles = TRUE
    /\ isNovel = FALSE
    /\ linkHeaders = FALSE
    /\ doKeywords = FALSE
    /\ doComments = FALSE
    /\ doSynopsis = FALSE
    /\ keepMarkdown \in BOOLEAN
    /\ \E s \in CodecInputs :
          /\ theText = s
          /\ origText = s
    /\ theMarkdown = <<>>
    /\ theTokens = <<>>
    /\ theResult = <<>>
    /\ fullHTML = <<>>
    /\ pc = "raw"
    /\ idx = 1
    /\ thisPar = <<>>
    /\ parStyle = None
    /\ tmpResult = <<>>
    /\ hasHardBreak = FALSE
    /\ scans = <<>>
    /\ calls = <<>>
    /\ tabsReplaced = FALSE

-----------------------------------------------------------------------------
(* The operations *)

setPreview(comments, synopsis) ==
    /\ pc \in {"ready", "done"}
    /\ genMode' = M_PREVIEW
    /\ doKeywords' = TRUE
    /\ doComments' = comments
    /\ doSynopsis' = synopsis
    /\ UNCHANGED <<cssStyles, isNovel, linkHeaders, keepMarkdown, theTokens, theResult,
                   fullHTML, pc, calls, tabsReplaced>>
    /\ UNCHANGED textVars
    /\ UNCHANGED loopVars

SetPreview == \E comments \in BOOLEAN, synopsis \in BOOLEAN : setPreview(comments, synopsis)

SetStyles ==
    /\ pc \in {"ready", "done"}
    /\ \E css \in BOOLEAN : cssStyles' = css
    /\ UNCHANGED <<genMode, isNovel, linkHeaders, doKeywords, doComments, doSynopsis,
                   keepMarkdown, theTokens, theResult, fullHTML, pc, calls, tabsReplaced>>
    /\ UNCHANGED textVars
    /\ UNCHANGED loopVars

\* Tokenizer.tokenizeText: a new token list for the next doConvert
TokenizeText ==
    /\ pc \in {"ready", "done"}
    /\ Len(calls) < MaxCalls
    /\ \E d \in CallDocs : theTokens' = d
    /\ pc' = "ready"
    /\ UNCHANGED configVars
    /\ UNCHANGED <<theResult, fullHTML, calls, tabsReplaced>>
    /\ UNCHANGED textVars
    /\ UNCHANGED loopVars

\* doConvert up to the loop
DoConvertBegin ==
    /\ pc = "ready"
    /\ theResult' = <<>>
    /\ thisPar' = <<>>
    /\ parStyle' = None
    /\ tmpResult' = <<>>
    /\ hasHardBreak' = FALSE
    /\ idx' = 1
    /\ scans' = <<>>
    /\ pc' = "loop"
    /\ UNCHANGED configVars
    /\ UNCHANGED <<theTokens, fullHTML, calls, tabsReplaced>>
    /\ UNCHANGED textVars

\* one iteration of the loop
DoConvertStep ==
    /\ pc = "loop"
    /\ idx <= Len(theTokens)
    /\ LET tok == theTokens[idx]
       IN  \E scan \in (IF tok.tType = T_KEYWORD /\ doKeywords THEN ScanResults ELSE {NoScan}) :
              LET st == loopBody(Locals, tok, scan)
              IN  /\ thisPar' = st.thisPar
                  /\ parStyle' = st.parStyle
                  /\ tmpResult' = st.tmpResult
                  /\ hasHardBreak' = st.hasHardBreak
                  /\ scans' = Append(scans, scan)
    /\ idx' = idx + 1
    /\ UNCHANGED configVars
    /\ UNCHANGED <<theTokens, theResult, fullHTML, pc, calls, tabsReplaced>>
    /\ UNCHANGED textVars

\* doConvert after the loop
DoConvertEnd ==
    /\ pc = "loop"
    /\ idx > Len(theTokens)
    /\ theResult' = Flatten(tmpResult)
    /\ tmpResult' = <<>>
    /\ fullHTML' = appendFull(fullHTML, theResult')
    /\ calls' = Append(calls, [mode |-> genMode, result |-> theResult'])
    /\ pc' = "done"
    /\ UNCHANGED configVars
    /\ UNCHANGED <<theTokens, tabsReplaced, idx, thisPar, parStyle, hasHardBreak, scans>>
    /\ UNCHANGED textVars

ReplaceTabs ==
    /\ pc \in {"ready", "done"}
    /\ \E nSpaces \in TabWidths : fullHTML' = replaceTabs(fullHTML, nSpaces, <<"&", "n", "b", "s", "p", ";">> (* "&nbsp;" *))
    /\ tabsReplaced' = TRUE
    /\ UNCHANGED configVars
    /\ UNCHANGED <<theTokens, theResult, pc, calls>>
    /\ UNCHANGED textVars
    /\ UNCHANGED loopVars

DoAutoReplace ==
    /\ pc = "raw"
    /\ theText' = Encode(theText)
    /\ pc' = "replaced"
    /\ UNCHANGED configVars
    /\ UNCHANGED <<theMarkdown, origText, theTokens, theResult, fullHTML, calls, tabsReplaced>>
    /\ UNCHANGED loopVars

\* Tokenizer.tokenizeText with keepMarkdown: the text becomes the last entry of theMarkdown
TokenizeMarkdown ==
    /\ pc = "replaced"
    /\ theMarkdown' = IF keepMarkdown THEN Append(theMarkdown, theText) ELSE theMarkdown
    /\ pc' = "tokenized"
    /\ UNCHANGED configVars
    /\ UNCHANGED <<theText, origText, theTokens, theResult, fullHTML, calls, tabsReplaced>>
    /\ UNCHANGED loopVars

DoPostProcessing ==
    /\ pc = "tokenized"
    /\ theMarkdown' =
          IF genMode = M_PREVIEW THEN theMarkdown
          ELSE IF keepMarkdown
               THEN [theMarkdown EXCEPT ![Len(theMarkdown)] = Decode(theMarkdown[Len(theMarkdown)])]
               ELSE theMarkdown
    /\ pc' = "post"
    /\ UNCHANGED configVars
    /\ UNCHANGED <<theText, origText, theTokens, theResult, fullHTML, calls, tabsReplaced>>
    /\ UNCHANGED loopVars

-----------------------------------------------------------------------------
(* The specifications *)

Next == DoConvertBegin \/ DoConvertStep \/ DoConvertEnd

NextCalls ==
    \/ TokenizeText
    \/ SetPreview
    \/ SetStyles
    \/ ReplaceTabs
    \/ DoConvertBegin
    \/ DoConvertStep
    \/ DoConvertEnd

NextCodec == DoAutoReplace \/ TokenizeMarkdown \/ DoPostProcessing

Spec      == Init /\ [][Next]_vars
SpecHead  == InitHead /\ [][Next]_vars
SpecMix   == InitMix /\ [][Next]_vars
SpecKey   == InitKey /\ [][Next]_vars
SpecSpan  == InitSpan /\ [][Next]_vars
SpecCalls == InitCalls /\ [][NextCalls]_vars
SpecCodec == InitCodec /\ [][NextCodec]_vars

-----------------------------------------------------------------------------
(* Reading the output back *)

Last(s) == s[Len(s)]

Contains(s, pat) == IndexOf(s, pat) > 0

\* the opening tag of a fragment, from "<" to the first ">"
OpenTag(frag) == SubSeq(frag, 1, IndexOf(frag, <<">">>))

\* the element name of the opening tag
TagName(frag) ==
    LET tag == OpenTag(frag)
        sp  == IndexOf(tag, <<" ">>)
    IN  SubSeq(tag, 2, (IF sp > 0 THEN sp ELSE Len(tag)) - 1)

\* the value of attribute attr ('...' quoted) where it first occurs in s
AttrValue(s, attr) ==
    LET open == attr \o <<"=", "'">>
        from == IndexOf(s, open) + Len(open)
        rest == SubSeq(s, from, Len(s))
    IN  SubSeq(rest, 1, IndexOf(rest, <<"'">>) - 1)

\* the number of fragments of a result: each ends with a line break
LineCount(s) == Cardinality({i \in 1..Len(s) : s[i] = "\n"})

\* the step of the loop that processes a token of one of the kinds
StepOn(kinds) ==
    /\ pc = "loop"
    /\ idx <= Len(theTokens)
    /\ theTokens[idx].tType \in kinds
    /\ idx' = idx + 1

\* the return of doConvert
Returns == pc = "loop" /\ pc' = "done"

\* tmpResult' is tmpResult and one more fragment
OneMoreFragment ==
    /\ Len(tmpResult') = Len(tmpResult) + 1
    /\ SubSeq(tmpResult', 1, Len(tmpResult)) = tmpResult

\* the tokens of the paragraph that is open before token i: the Text tokens
\* after the last Empty token before i
OpenTexts(i) ==
    {j \in 1..(i - 1) :
        /\ theTokens[j].tType = T_TEXT
        /\ \A k \in j..(i - 1) : theTokens[k].tType # T_EMPTY}

FirstOpenText(i) == CHOOSE j \in OpenTexts(i) : \A k \in OpenTexts(i) : j <= k

HelloWorldDoc == <<HelloTok, WorldTok, EmptyTok>>

-----------------------------------------------------------------------------
(* C1: an Empty token met while the paragraph buffer is not empty emits      *)
(* exactly one <p> fragment, whose content is the buffered lines joined in   *)
(* order and right-trimmed; an Empty token met with an empty buffer emits    *)
(* nothing; after any Empty token the buffer is empty, the paragraph style   *)
(* is unset and the hard-break flag is false.  [Text("Hello "),              *)
(* Text("world."), Empty] without style flags gives "<p>Hello world.</p>\n". *)
C1_EmptyStep ==
    StepOn({T_EMPTY}) =>
        /\ thisPar' = <<>>
        /\ parStyle' = None
        /\ hasHardBreak' = FALSE
        /\ IF thisPar # <<>>
           THEN /\ OneMoreFragment
                /\ StartsWithAt(Last(tmpResult'), 1, <<"<", "p">>)
                /\ EndsWith(Last(tmpResult'), <<">">> \o RStrip(Flatten(thisPar)) \o <<"<", "/", "p", ">", "\n">> (* "</p>\n" *))
                /\ LineCount(Last(tmpResult')) = 1
           ELSE tmpResult' = tmpResult

C1_Example ==
    (Returns /\ theTokens = HelloWorldDoc) => theResult' = <<"<", "p", ">", "H", "e", "l", "l", "o", " ", "w", "o", "r", "l", "d", ".", "<", "/", "p", ">", "\n">> (* "<p>Hello world.</p>\n" *)

C1_FlushOnEmpty == [][C1_EmptyStep /\ C1_Example]_vars

C1_Witness ==
    /\ pc = "loop"
    /\ theTokens = HelloWorldDoc
    /\ idx = 4
    /\ tmpResult = <<<<"<", "p", ">", "H", "e", "l", "l", "o", " ", "w", "o", "r", "l", "d", ".", "<", "/", "p", ">", "\n">> (* "<p>Hello world.</p>\n" *)>>
    /\ thisPar = <<>>
    /\ parStyle = None

(* C2: a Title or Heading1..4 token that arrives while a paragraph is open   *)
(* emits its heading fragment at once and leaves the buffer, the paragraph   *)
(* style and the hard-break flag as they are, so the heading precedes the    *)
(* paragraph's text; when the token list ends with a paragraph open, nothing *)
(* is emitted for the buffered text, and theResult holds one fragment per    *)
(* heading and per Empty token that closed a paragraph, no more.             *)
ClosedParagraphs == {i \in 1..Len(theTokens) : theTokens[i].tType = T_EMPTY /\ OpenTexts(i) # {}}
Headings == {i \in 1..Len(theTokens) : theTokens[i].tType \in HeadKinds}

C2_HeadStep ==
    StepOn(HeadKinds) =>
        /\ UNCHANGED <<thisPar, parStyle, hasHardBreak>>
        /\ OneMoreFragment
        /\ StartsWithAt(Last(tmpResult'), 1, <<"<", "h">>)

C2_Return ==
    Returns =>
        /\ theResult' = Flatten(tmpResult)
        /\ LineCount(theResult') = Cardinality(ClosedParagraphs) + Cardinality(Headings)
        /\ (theTokens = <<HelloTok, HeadTok, EmptyTok>> /\ ~linkHeaders)
              => theResult' = <<"<", "h", "2", ">", "H", "<", "/", "h", "2", ">", "\n", "<", "p", ">", "H", "e", "l", "l", "o", "<", "/", "p", ">", "\n">> (* "<h2>H</h2>\n<p>Hello</p>\n" *)

C2_OnlyEmptyFlushes == [][C2_HeadStep /\ C2_Return]_vars

C2_Witness ==
    /\ pc = "done"
    /\ theTokens = <<HelloTok, HeadTok, WorldTok>>
    /\ thisPar = <<<<"H", "e", "l", "l", "o", " ">> (* "Hello " *), <<"w", "o", "r", "l", "d", ".", " ">> (* "world. " *)>>
    /\ theResult = <<"<", "h", "2", ">", "H", "<", "/", "h", "2", ">", "\n">> (* "<h2>H</h2>\n" *)

(* C4: the style attribute of every emitted paragraph is the one resolved    *)
(* from the first Text token buffered since the previous flush, also when    *)
(* that is the empty style and a later Text token of the paragraph has style *)
(* flags; the style of a paragraph does not carry over to the next.          *)
C4_EmptyStep ==
    (StepOn({T_EMPTY}) /\ thisPar # <<>>) =>
        LET first == theTokens[FirstOpenText(idx)]
            frag  == Last(tmpResult')
        IN  /\ OneMoreFragment
            /\ \/ StartsWithAt(frag, 1, <<"<", "p">> \o hStyle(first.tStyle) \o <<">">>)
               \/ StartsWithAt(frag, 1, <<"<", "p">> \o hStyle(first.tStyle) \o <<" ", "c", "l", "a", "s", "s", "=">> (* " class=" *))

C4_FirstTextStyle == [][C4_EmptyStep]_vars

C4_Witness ==
    /\ pc = "done"
    /\ cssStyles
    /\ theTokens = <<RightTok, EmptyTok, HelloTok, RightTok, EmptyTok>>
    /\ theResult = <<"<", "p", " ", "s", "t", "y", "l", "e", "=", "'", "t", "e", "x", "t", "-", "a", "l", "i", "g", "n", ":", " ", "r", "i", "g", "h", "t", ";", "'", ">", "b", "<", "/", "p", ">", "\n", "<", "p", ">", "H", "e", "l", "l", "o", " ", "b", "<", "/", "p", ">", "\n">> (* "<p style='text-align: right;'>b</p>\n<p>Hello b</p>\n" *)

(* C5: a Text token whose text ends with two spaces is buffered with <br/>   *)
(* where the other lines have their single trailing space, and the paragraph *)
(* flushed by the next Empty token has class 'break' exactly when CSS        *)
(* styling is enabled and a Text token of that paragraph ended with two      *)
(* spaces, whatever the paragraphs before it contained.                      *)
C5_TextStep ==
    StepOn({T_TEXT}) =>
        /\ Len(thisPar') = Len(thisPar) + 1
        /\ IF EndsWith(theTokens[idx].tText, <<" ", " ">>)
           THEN /\ EndsWith(Last(thisPar'), <<"<", "b", "r", "/", ">">> (* "<br/>" *))
                /\ ~EndsWith(Last(thisPar'), <<" ", "<", "b", "r", "/", ">">> (* " <br/>" *))
           ELSE /\ EndsWith(Last(thisPar'), <<" ">>)
                /\ ~EndsWith(Last(thisPar'), <<" ", " ">>)
                /\ ~Contains(Last(thisPar'), <<"<", "b", "r", "/", ">">> (* "<br/>" *))

C5_EmptyStep ==
    (StepOn({T_EMPTY}) /\ thisPar # <<>>) =>
        (EndsWith(OpenTag(Last(tmpResult')), <<" ", "c", "l", "a", "s", "s", "=", "'", "b", "r", "e", "a", "k", "'", ">">> (* " class='break'>" *))
            <=> (cssStyles /\ \E j \in OpenTexts(idx) : EndsWith(theTokens[j].tText, <<" ", " ">>)))

C5_HardBreak == [][C5_TextStep /\ C5_EmptyStep]_vars

C5_Witness ==
    /\ pc = "done"
    /\ cssStyles
    /\ theTokens = <<BreakTok, HelloTok, EmptyTok, HelloTok, EmptyTok>>
    /\ theResult = <<"<", "p", " ", "c", "l", "a", "s", "s", "=", "'", "b", "r", "e", "a", "k", "'", ">", "a", "<", "b", "r", "/", ">", "H", "e", "l", "l", "o", "<", "/", "p", ">", "\n", "<", "p", ">", "H", "e", "l", "l", "o", "<", "/", "p", ">", "\n">> (* "<p class='break'>a<br/>Hello</p>\n<p>Hello</p>\n" *)

(* C3: while replaceTabs has not rewritten it, fullHTML holds exactly one    *)
(* entry per doConvert call made in a mode other than Preview, each equal to *)
(* the theResult of that call, in call order; a call in Preview mode leaves  *)
(* fullHTML as it is.                                                        *)
RECURSIVE ExportResults(_)
ExportResults(log) ==
    IF log = <<>> THEN <<>>
    ELSE IF Head(log).mode \in {M_EXPORT, M_EBOOK}
         THEN <<Head(log).result>> \o ExportResults(Tail(log))
         ELSE ExportResults(Tail(log))

C3_FullHtmlIsExportLog == ~tabsReplaced => fullHTML = ExportResults(calls)

C3_Witness ==
    /\ ~tabsReplaced
    /\ pc = "done"
    /\ Len(calls) = 3
    /\ calls[1].mode = M_EXPORT
    /\ calls[2].mode = M_EXPORT
    /\ calls[3].mode = M_PREVIEW
    /\ calls[1].result # calls[2].result
    /\ calls[3].result # <<>>
    /\ fullHTML = <<calls[1].result, calls[2].result>>

(* C6: a Keyword token, with keyword rendering enabled, whose index lookup   *)
(* reports invalid or returns no segments adds no fragment to the output.    *)
C6_UnresolvedStep ==
    (/\ StepOn({T_KEYWORD})
     /\ doKeywords
     /\ (~Last(scans').isValid \/ Last(scans').theBits = <<>>))
    => tmpResult' = tmpResult

C6_UnresolvedKeywordRendersNothing == [][C6_UnresolvedStep]_vars

(* C7: for a Text token whose format spans are in range, ascending and not   *)
(* overlapping, the buffered line (before the space or <br/> that ends it)   *)
(* is the token text with every span's substring replaced by the delimiter   *)
(* of its format kind in the mode's tag table and every other character kept *)
(* in order, right-trimmed; without spans it is the right-trimmed text.      *)

\* text from position cursor on (counted from 0), spans replaced from left to right
RECURSIVE SpansReplaced(_, _, _)
SpansReplaced(text, spans, cursor) ==
    IF spans = <<>> THEN SubSeq(text, cursor + 1, Len(text))
    ELSE SubSeq(text, cursor + 1, Head(spans)[1])
         \o htmlTags(Head(spans)[3])
         \o SpansReplaced(text, Tail(spans), Head(spans)[1] + Head(spans)[2])

LineEnd(tText) == IF EndsWith(tText, <<" ", " ">>) THEN <<"<", "b", "r", "/", ">">> (* "<br/>" *) ELSE <<" ">>

C7_SpansReplaced ==
    (/\ pc \in {"loop", "done"}
     /\ idx > 1
     /\ theTokens[idx - 1].tType = T_TEXT
     /\ InRange(theTokens[idx - 1].tText, theTokens[idx - 1].tFormat)
     /\ NonOverlapping(theTokens[idx - 1].tFormat))
    => LET tok == theTokens[idx - 1]
       IN  /\ thisPar # <<>>
           /\ Last(thisPar) = RStrip(SpansReplaced(tok.tText, tok.tFormat, 0)) \o LineEnd(tok.tText)
           /\ tok.tFormat = <<>> => Last(thisPar) = RStrip(tok.tText) \o LineEnd(tok.tText)

C7_Witness ==
    /\ pc = "done"
    /\ genMode = M_EXPORT
    /\ theTokens = <<Tok(T_TEXT, 1, <<"a", "b", "c", "d", "e">> (* "abcde" *), <<<<0, 1, FMT_B_B>>, <<3, 2, FMT_B_E>>>>, NoStyle)>>
    /\ thisPar = <<<<"<", "s", "t", "r", "o", "n", "g", ">", "b", "c", "<", "/", "s", "t", "r", "o", "n", "g", ">", " ">> (* "<strong>bc</strong> " *)>>

(* C8: decode(encode(s)) = s for every string s of mapped characters, where  *)
(* encode is the one-pass substitution by repDict and decode the one-pass    *)
(* substitution by revDict; encode replaces each mapped character once and   *)
(* never escapes its own output: encode("<a & b>") is "&lt;a &amp; b&gt;".   *)
OnlyMapped(s) == \A i \in 1..Len(s) : <<s[i]>> \in MappedChars
EntityOf(c) == repDict[CHOOSE i \in 1..Len(repDict) : repDict[i][1] = <<c>>][2]

C8_RoundTrip ==
    /\ (pc \in {"replaced", "tokenized", "post"} /\ origText = EscapeExample)
          => theText = <<"&", "l", "t", ";", "a", " ", "&", "a", "m", "p", ";", " ", "b", "&", "g", "t", ";">> (* "&lt;a &amp; b&gt;" *)
    /\ (pc \in {"replaced", "tokenized", "post"} /\ OnlyMapped(origText))
          => theText = Flatten([i \in 1..Len(origText) |-> EntityOf(origText[i])])
    /\ (pc = "post" /\ keepMarkdown /\ genMode # M_PREVIEW /\ OnlyMapped(origText))
          => Last(theMarkdown) = origText

C8_Witness ==
    /\ pc = "post"
    /\ keepMarkdown
    /\ genMode = M_EXPORT
    /\ origText = <<"&", "<">> \o U_MAPOSS
    /\ theText = <<"&", "a", "m", "p", ";", "&", "l", "t", ";", "&", "r", "s", "q", "u", "o", ";">> (* "&amp;&lt;&rsquo;" *)
    /\ theMarkdown = <<origText>>

(* C9: for a novel document in a mode other than Preview, Heading1 renders   *)
(* as h1 with class 'title', Heading2 as h1 without the class, Heading3 as   *)
(* h2 and Heading4 as h3; otherwise Heading1..4 render as h1..h4 without the *)
(* title class.                                                              *)
ExpectedTag(tType) ==
    IF isNovel /\ genMode \in {M_EXPORT, M_EBOOK}
    THEN CASE tType = T_HEAD1 -> <<"h", "1">> [] tType = T_HEAD2 -> <<"h", "1">>
           [] tType = T_HEAD3 -> <<"h", "2">> [] tType = T_HEAD4 -> <<"h", "3">>
    ELSE CASE tType = T_HEAD1 -> <<"h", "1">> [] tType = T_HEAD2 -> <<"h", "2">>
           [] tType = T_HEAD3 -> <<"h", "3">> [] tType = T_HEAD4 -> <<"h", "4">>

C9_HeadingTags ==
    (/\ pc = "loop"
     /\ idx > 1
     /\ theTokens[idx - 1].tType \in {T_HEAD1, T_HEAD2, T_HEAD3, T_HEAD4})
    => LET tType == theTokens[idx - 1].tType
           frag  == Last(tmpResult)
       IN  /\ TagName(frag) = ExpectedTag(tType)
           /\ EndsWith(frag, <<"<", "/">> \o ExpectedTag(tType) \o <<">", "\n">>)
           /\ Contains(OpenTag(frag), <<" ", "c", "l", "a", "s", "s", "=", "'", "t", "i", "t", "l", "e", "'">> (* " class='title'" *))
                 <=> (isNovel /\ genMode \in {M_EXPORT, M_EBOOK} /\ tType = T_HEAD1)

C9_Witness ==
    /\ pc = "loop"
    /\ isNovel
    /\ genMode = M_EBOOK
    /\ ~linkHeaders
    /\ idx = 2
    /\ theTokens[1] = Tok(T_HEAD2, 7, <<"H">>, <<>>, NoStyle)
    /\ tmpResult = <<<<"<", "h", "1", ">", "H", "<", "/", "h", "1", ">", "\n">> (* "<h1>H</h1>\n" *)>>

(* C10: in Export and Ebook mode, the link target rendered for a value v     *)
(* referenced by a keyword other than the tag definition is '#' followed by  *)
(* the anchor name the tag definition renders for v, whichever keyword made  *)
(* the reference; a tag definition renders a named anchor and no hyperlink;  *)
(* several referenced values render as one link each, joined with ", " in    *)
(* segment order.                                                            *)

\* the name of the anchor that the tag definition of value v renders
DefinedAnchor(v) ==
    AttrValue(formatKeywords([isValid |-> TRUE, theBits |-> <<TAG_KEY, v>>]), <<"n", "a", "m", "e">> (* "name" *))

C10_KeywordLinks ==
    (/\ pc = "loop"
     /\ idx > 1
     /\ theTokens[idx - 1].tType = T_KEYWORD
     /\ doKeywords
     /\ genMode \in {M_EXPORT, M_EBOOK}
     /\ scans[idx - 1].isValid
     /\ Len(scans[idx - 1].theBits) > 1
     /\ scans[idx - 1].theBits[1] \in DOMAIN KEY_NAME)
    => LET bits == scans[idx - 1].theBits
           frag == Last(tmpResult)
       IN  IF bits[1] = TAG_KEY
           THEN /\ Contains(frag, <<"<", "a", " ", "n", "a", "m", "e", "=", "'", "t", "a", "g", "_">> (* "<a name='tag_" *) \o bits[2] \o <<"'", ">">>)
                /\ ~Contains(frag, <<"h", "r", "e", "f">> (* "href" *))
           ELSE frag = <<"<", "p">> \o hStyle(theTokens[idx - 1].tStyle) \o <<">">>
                       \o <<"<", "s", "p", "a", "n", " ", "c", "l", "a", "s", "s", "=", "'", "t", "a", "g", "s", "'", ">">> (* "<span class='tags'>" *) \o KEY_NAME[bits[1]] \o <<":", "<", "/", "s", "p", "a", "n", ">", " ">> (* ":</span> " *)
                       \o JoinWith(<<",", " ">>, [i \in 1..(Len(bits) - 1) |->
                              <<"<", "a", " ", "h", "r", "e", "f", "=", "'", "#">> (* "<a href='#" *) \o DefinedAnchor(bits[i + 1]) \o <<"'", ">">>
                                  \o bits[i + 1] \o <<"<", "/", "a", ">">> (* "</a>" *)])
                       \o <<"<", "/", "p", ">", "\n">> (* "</p>\n" *)

C10_Witness ==
    /\ pc = "loop"
    /\ genMode = M_EXPORT
    /\ idx = 2
    /\ scans = <<[isValid |-> TRUE, theBits |-> <<CHAR_KEY, <<"a", "l", "p", "h", "a">> (* "alpha" *), <<"b">>>>]>>
    /\ theTokens[1].tStyle = NoStyle
    /\ tmpResult = <<<<"<", "p", ">", "<", "s", "p", "a", "n", " ", "c", "l", "a", "s", "s", "=", "'", "t", "a", "g", "s", "'", ">", "C", "h", "a", "r", "a", "c", "t", "e", "r", "s", ":", "<", "/", "s", "p", "a", "n", ">", " ", "<", "a", " ", "h", "r", "e", "f", "=", "'", "#", "t", "a", "g", "_", "a", "l", "p", "h", "a", "'", ">", "a", "l", "p", "h", "a", "<", "/", "a", ">", ",", " ", "<", "a", " ", "h", "r", "e", "f", "=", "'", "#", "t", "a", "g", "_", "b", "'", ">", "b", "<", "/", "a", ">", "<", "/", "p", ">", "\n">> (* "<p><span class='tags'>Characters:</span> <a href='#tag_alpha'>alpha</a>, <a href='#tag_b'>b</a></p>\n" *)>>

=============================================================================
